---------------------------- MODULE Spec2Model ----------------------------
(***************************************************************************)
(* Verification model of the Music_Visualizer synchronization-and-shading  *)
(* core: the beat state engine (interactive hook and batch helper), the    *)
(* time-series interpolator, the shader scene and the batch frame.         *)
(*                                                                         *)
(* Numbers.  Times are integers in milliseconds (the sources hold seconds  *)
(* as floats; 0.08 s is 80 ms).  A beat intensity is held in units of      *)
(* 1/BeatWindowMs, so the source's 1 - timeSince/0.08 is the integer       *)
(* BeatWindowMs - timeSince and the interval [0,1] is 0..BeatWindowMs.     *)
(* An interpolated value is an exact fraction [num, den] with den > 0.     *)
(* Array indices keep the source's 0-based values; At(s, i) reads s[i].    *)
(***************************************************************************)
EXTENDS Integers, Sequences, FiniteSets, TLC

VARIABLES
    \* --- beat state engine (useAudioFeatures / getBeatStateAtTime) ---
    beats,          \* analysis.rhythm.beats
    currentTime,    \* playback position / batch timestamp, ms
    duration,       \* analysis.metadata.duration, ms
    beatState,      \* the hook's beatState (useState)
    hookRan,        \* updateFeatures has run for these inputs
    helperState,    \* value returned by getBeatStateAtTime
    helperRan,      \* getBeatStateAtTime has run for these inputs
    \* --- time-series interpolator (interpolateFeature) ---
    times,          \* series timestamps
    values,         \* series values
    targetTime,     \* query
    searchLo,       \* lo when the function returned
    searchHi,       \* hi when the function returned
    interpPath,     \* which return statement was taken
    interpResult,   \* value returned, [num, den]
    \* --- live audio graph and the hook's feature state ---
    freqData,       \* analyser byte frequency data (getFrequencyData)
    timeData,       \* analyser byte time-domain data (getTimeDomainData)
    features,       \* the hook's features (useState), NullFeatures before the first update
    \* --- shader scene (ShaderScene) and its GL context ---
    shaderCode,     \* prop shaderCode (customShaderCode ?? "")
    shaderMaterial, \* useMemo result, attached to the mesh at commit
    materialEffect, \* the effect on [shaderMaterial] is scheduled and has not run
    sizeEffect,     \* the effect on [size, uniforms] is scheduled and has not run
    materialRef,    \* materialRef.current
    errorCheckedRef,\* errorCheckedRef.current
    uniforms,       \* the uniform table shared by every material
    size,           \* useThree().size
    elapsedTime,    \* state.clock.elapsedTime, ms
    glError,        \* the GL context holds an error flag that getError would return
    hasDebugExt,    \* getExtension("WEBGL_debug_shaders") is non-null
    errorCalls,     \* calls of onCompileError since the last source change
    drawn,          \* fragment program of the last draw since the last source change
    sinceChange,    \* history: what preceded and followed the last source change
    \* --- batch frame (MusicVisualizerFrame) ---
    analysis,       \* audioAnalysis: its spectral and harmonicPercussive series
    sections,       \* renderSpec.sections
    fps,            \* frames per second
    frame,          \* frame number
    batchFrame,     \* visual state computed by MusicVisualizerFrame
    batchRan,       \* MusicVisualizerFrame has run for these inputs
    evaluated,      \* history: the first visual state computed for each frame number
    \* --- chat websocket client (ChatWebSocket) and its browser sockets ---
    sockets,        \* every WebSocket the client has created, by its state
    ws,             \* this.ws: position in sockets, 0 for null
    reconnectAttempts,    \* this.reconnectAttempts
    maxReconnectAttempts, \* this.maxReconnectAttempts
    reconnectTimers,      \* pending setTimeout(() => this.connect(), delay)
    wsConnectCalled,      \* the owner has called connect()
    wsDisconnected,       \* history: disconnect() has been called
    socketsAfterDisconnect, \* history: WebSockets created after disconnect()
    \* --- chat store, visualizer store, provider and chat panel ---
    phase,          \* useChatStore phase
    renderSpec,     \* useChatStore renderSpec, NoSpec for null
    messages,       \* useChatStore messages
    isStreaming,    \* useChatStore isStreaming
    providerConnected,  \* ChatWebSocketProvider isConnected
    customShaderCode,   \* useVisualizerStore customShaderCode, NoShader for null
    pendingGenerations, \* autoGenerateShader calls awaiting their response
    lastRenderedSpec,   \* ChatPanel lastRenderedSpec.current
    effectPending,  \* the render effect of ChatPanel is scheduled and has not run
    startInFlight,  \* POST /api/render/start requests awaiting their response
    polling,        \* pollRef.current holds a running interval
    cleanupRegistered,  \* the last run of the render effect returned its cleanup
    pollFailures,   \* pollFailures.current
    submittedShader,\* history: shaderCode of the last render submission
    failedSince,    \* history: a render failed and none was submitted since
    streamIdx,      \* history: position of the message created by the last stream_start
    streamChunks,   \* history: concatenation of the chunks sent since then
    streamState,    \* history: the server's stream is idle, streaming or ended
    \* --- section resolver (getCurrentSection) ---
    sectionList,    \* argument sections
    sectionTime,    \* argument currentTime, ms
    sectionResult   \* value returned, NotResolved before the call

beatVars   == <<beats, currentTime, duration, beatState, hookRan, helperState, helperRan>>
interpVars == <<times, values, targetTime, searchLo, searchHi, interpPath, interpResult>>
liveVars   == <<freqData, timeData, features>>
shaderVars == <<shaderCode, shaderMaterial, materialEffect, sizeEffect, materialRef,
                errorCheckedRef, uniforms, size, elapsedTime, glError, hasDebugExt,
                errorCalls, drawn, sinceChange>>
batchVars  == <<analysis, sections, fps, frame, batchFrame, batchRan, evaluated>>
sectionVars == <<sectionList, sectionTime, sectionResult>>
wsVars     == <<sockets, ws, reconnectAttempts, maxReconnectAttempts, reconnectTimers,
                wsConnectCalled, wsDisconnected, socketsAfterDisconnect>>
chatVars   == <<phase, renderSpec, messages, isStreaming, providerConnected,
                customShaderCode, pendingGenerations, lastRenderedSpec, effectPending,
                startInFlight, polling, cleanupRegistered, pollFailures,
                submittedShader, failedSince,
                streamIdx, streamChunks, streamState>>
clientVars == <<wsVars, chatVars>>
coreVars   == <<beatVars, interpVars, liveVars, shaderVars, batchVars, sectionVars>>
vars       == <<coreVars, clientVars>>

-----------------------------------------------------------------------------
(* Bounds of the model *)

MaxBeats   == 3      \* longest beat list
PreRollMs  == 100    \* how far before a grid beat a timestamp may lie
TailMs     == 120    \* how far after a grid beat a timestamp may lie
MaxLen     == 3      \* longest series
MaxTime    == 4      \* series timestamps and queries lie in -1..MaxTime+1
MaxSockets      == 7 \* WebSockets one client creates at most
MaxMessages     == 3 \* chat messages in the store at most
MaxChunks       == 2 \* chunks of one stream at most
MaxGenerations  == 1 \* shader generation requests in flight at most
MaxInFlight     == 1 \* render start requests in flight at most
MaxSections     == 3 \* longest section list
MaxSectionStart == 2 \* section starts lie on grid steps 0..MaxSectionStart
SectionGridMs   == 40 \* grid step of the section starts, ms

NumBins    == 25     \* analyser.frequencyBinCount of the modelled audio graph
MaxBins    == 30     \* longest analyser buffer of the live extraction
MaxClock   == 2      \* the render clock takes the values 0..MaxClock (x 20 ms)
MaxFrame   == 4      \* batch frames 0..MaxFrame

BeatGrid   == {0, 40, 500, 1000}
BeatTimestamps == {b + d : b \in BeatGrid, d \in (0 - PreRollMs)..TailMs}
Durations  == {1200}
FeatureValues == {0, 40, 100}

-----------------------------------------------------------------------------
(* Helpers *)

Max(a, b) == IF a >= b THEN a ELSE b

\* arr[i] ?? 0 : a read past the end of a JS array is undefined, replaced by 0
At(arr, i) == IF i >= 0 /\ i < Len(arr) THEN arr[i + 1] ELSE 0

SeqsUpTo(S, n) == UNION {[1..k -> S] : k \in 0..n}

IsAscending(s) == \A i \in 1..(Len(s) - 1) : s[i] <= s[i + 1]

IsStrictlyIncreasing(s) == \A i \in 1..(Len(s) - 1) : s[i] < s[i + 1]

Frac(n, d) == [num |-> n, den |-> d]

FracEq(a, b) == a.num * b.den = b.num * a.den

FracAdd(a, b) == Frac(a.num * b.den + b.num * a.den, a.den * b.den)

RECURSIVE SumRange(_, _, _)
\* sum of arr[i] ?? 0 for start <= i < end
SumRange(arr, start, end) ==
    IF start >= end THEN 0 ELSE At(arr, start) + SumRange(arr, start + 1, end)

-----------------------------------------------------------------------------
(* Live feature extraction (interactive path) *)

\* Math.floor(bins * ratio) for ratio = pct / 100
FloorRatio(bins, pct) == (bins * pct) \div 100

\* variant: the range includes its end bin
BandAvgInclusive(data, start, end) ==
    IF end - start <= 0
    THEN [num |-> 0, den |-> 1]
    ELSE [num |-> SumRange(data, start, end + 1), den |-> (end - start) * 255]

\* variant: the mean is not scaled by 255
BandAvgUnscaled(data, start, end) ==
    IF end - start <= 0
    THEN [num |-> 0, den |-> 1]
    ELSE [num |-> SumRange(data, start, end), den |-> end - start]

\* avg(start, end) of getEnergyBands: mean magnitude of the range over 255,
\* 0 for an empty range
BandAvg(data, start, end) ==
    IF end - start <= 0
    THEN Frac(0, 1)
    ELSE Frac(SumRange(data, start, end), (end - start) * 255)

\* variant: the treble range starts at bin 0
getEnergyBandsTrebleFromStart(frequencyData) ==
    LET bins       == Len(frequencyData)
        bassEnd    == FloorRatio(bins, 4)
        lowMidEnd  == FloorRatio(bins, 8)
        midEnd     == FloorRatio(bins, 25)
        highMidEnd == FloorRatio(bins, 50)
    IN  [bass    |-> BandAvg(frequencyData, 0, bassEnd),
         lowMid  |-> BandAvg(frequencyData, bassEnd, lowMidEnd),
         mid     |-> BandAvg(frequencyData, lowMidEnd, midEnd),
         highMid |-> BandAvg(frequencyData, midEnd, highMidEnd),
         treble  |-> BandAvg(frequencyData, 0, bins)]

getEnergyBands(frequencyData) ==
    LET bins       == Len(frequencyData)
        bassEnd    == FloorRatio(bins, 4)
        lowMidEnd  == FloorRatio(bins, 8)
        midEnd     == FloorRatio(bins, 25)
        highMidEnd == FloorRatio(bins, 50)
    IN  [bass    |-> BandAvg(frequencyData, 0, bassEnd),
         lowMid  |-> BandAvg(frequencyData, bassEnd, lowMidEnd),
         mid     |-> BandAvg(frequencyData, lowMidEnd, midEnd),
         highMid |-> BandAvg(frequencyData, midEnd, highMidEnd),
         treble  |-> BandAvg(frequencyData, highMidEnd, bins)]

RECURSIVE SquareSum(_, _)
\* sum over the buffer of (sample - 128)^2; each term is val * val * 128^2
SquareSum(data, i) ==
    IF i >= Len(data)
    THEN 0
    ELSE (At(data, i) - 128) * (At(data, i) - 128) + SquareSum(data, i + 1)

\* rms = Math.sqrt(rmsSum / timeData.length), held as the fraction under the
\* root; a buffer of length 0 gives 0/0 (NaN in the source)
Rms(data) == [sqrtOf |-> Frac(SquareSum(data, 0), 128 * 128 * Len(data))]

RECURSIVE WeightedSum(_, _)
WeightedSum(data, i) ==
    IF i >= Len(data) THEN 0 ELSE i * At(data, i) + WeightedSum(data, i + 1)

\* variant: no guard for a total magnitude of 0
SpectralCentroidUnguarded(data) ==
    Frac(WeightedSum(data, 0), SumRange(data, 0, Len(data)) * Len(data))

SpectralCentroid(data) ==
    LET weightedSum    == WeightedSum(data, 0)
        totalMagnitude == SumRange(data, 0, Len(data))
    IN  IF totalMagnitude > 0
        THEN Frac(weightedSum, totalMagnitude * Len(data))
        ELSE Frac(1, 2)

\* the object passed to setFeatures
ExtractFeatures(freq, time) ==
    LET bands == getEnergyBands(freq)
    IN  [rms              |-> Rms(time),
         spectralCentroid |-> SpectralCentroid(freq),
         spectralFlux     |-> Frac(0, 1),
         spectralRolloff  |-> Frac(0, 1),
         spectralFlatness |-> Frac(0, 1),
         energyBands      |-> bands,
         harmonicEnergy   |-> FracAdd(bands.mid, bands.lowMid),
         percussiveEnergy |-> FracAdd(bands.bass, bands.treble),
         onsetStrength    |-> Frac(bands.bass.num * 2, bands.bass.den)]

\* useState<AudioFeaturesAtTime | null>(null)
NullFeatures == [null |-> TRUE]

\* a buffer of n bins all holding the same byte
FlatBuffer(n, level) == [i \in 1..n |-> level]

\* a buffer whose first k bins hold hi and whose other bins hold lo
StepBuffer(n, k, hi, lo) == [i \in 1..n |-> IF i <= k THEN hi ELSE lo]

\* the analyser buffers the model draws from
FreqBuffers ==
    {FlatBuffer(NumBins, 0), FlatBuffer(NumBins, 255),
     StepBuffer(NumBins, NumBins \div 4, 255, 0)}
TimeBuffers ==
    {FlatBuffer(NumBins, 128), FlatBuffer(NumBins, 192), FlatBuffer(NumBins, 0)}

LiveIdle ==
    /\ freqData = FlatBuffer(NumBins, 0)
    /\ timeData = FlatBuffer(NumBins, 128)
    /\ features = NullFeatures

LiveInit ==
    /\ freqData \in FreqBuffers
    /\ timeData \in TimeBuffers
    /\ features = NullFeatures

\* analyser buffers of every length 0..MaxBins: two-level spectra with the
\* step at every bin, and a time-domain buffer of the same length (both
\* buffers have analyser.frequencyBinCount entries)
Levels == {0, 200, 255}
SpectrumBuffers ==
    UNION {{StepBuffer(n, k, hi, lo) : k \in 0..n, hi \in Levels, lo \in Levels} :
           n \in 0..MaxBins}
WaveLevels == {0, 128, 192}

LiveBuffersInit ==
    /\ freqData \in SpectrumBuffers
    /\ \E level \in WaveLevels : timeData = FlatBuffer(Len(freqData), level)
    /\ features = NullFeatures

-----------------------------------------------------------------------------
(* Beat state engine *)

BeatWindowMs == 80

RECURSIVE HelperScanStrict(_, _, _, _)
\* variant: a beat exactly at the timestamp does not count as reached
HelperScanStrict(bs, t, i, last) ==
    IF i < Len(bs)
    THEN IF At(bs, i) < t THEN HelperScanStrict(bs, t, i + 1, i) ELSE last
    ELSE last

RECURSIVE HelperScan(_, _, _, _)
\* the for loop of getBeatStateAtTime: i is the loop index, last is lastBeatIdx
HelperScan(bs, t, i, last) ==
    IF i < Len(bs)
    THEN IF At(bs, i) <= t THEN HelperScan(bs, t, i + 1, i) ELSE last
    ELSE last

\* variant: the 80 ms window includes its end point
getBeatStateAtTimeInclusive(bs, t) ==
    LET lastBeatIdx  == HelperScan(bs, t, 0, -1)
        lastBeatTime == IF lastBeatIdx >= 0 THEN At(bs, lastBeatIdx) ELSE 0
        timeSince    == t - lastBeatTime
        isOnBeat     == timeSince <= BeatWindowMs
        intensity    == IF isOnBeat THEN Max(0, BeatWindowMs - timeSince) ELSE 0
    IN  [isOnBeat |-> isOnBeat, intensity |-> intensity, index |-> lastBeatIdx]

getBeatStateAtTime(bs, t) ==
    LET lastBeatIdx  == HelperScan(bs, t, 0, -1)
        lastBeatTime == IF lastBeatIdx >= 0 THEN At(bs, lastBeatIdx) ELSE 0
        timeSince    == t - lastBeatTime
        isOnBeat     == timeSince < BeatWindowMs
        intensity    == IF isOnBeat THEN Max(0, BeatWindowMs - timeSince) ELSE 0
    IN  [isOnBeat |-> isOnBeat, intensity |-> intensity, index |-> lastBeatIdx]

RECURSIVE HookScanStrict(_, _, _, _)
\* variant: the hook's scan compares strictly
HookScanStrict(bs, t, i, last) ==
    IF i < Len(bs)
    THEN IF At(bs, i) < t THEN HookScanStrict(bs, t, i + 1, i) ELSE <<last, i>>
    ELSE <<last, -1>>

RECURSIVE HookScan(_, _, _, _)
\* the for loop of updateFeatures: returns <<lastBeatIdx, nextBeatIdx>>
HookScan(bs, t, i, last) ==
    IF i < Len(bs)
    THEN IF At(bs, i) <= t THEN HookScan(bs, t, i + 1, i) ELSE <<last, i>>
    ELSE <<last, -1>>

updateFeaturesBeat(bs, time, dur) ==
    LET scan              == HookScan(bs, time, 0, -1)
        lastBeatIdx       == scan[1]
        nextBeatIdx       == scan[2]
        lastBeatTime      == IF lastBeatIdx >= 0 THEN At(bs, lastBeatIdx) ELSE 0
        nextBeatTime      == IF nextBeatIdx >= 0 THEN At(bs, nextBeatIdx) ELSE dur
        timeSinceLastBeat == time - lastBeatTime
        timeToNextBeat    == nextBeatTime - time
        isOnBeat          == timeSinceLastBeat < BeatWindowMs
        beatIntensity     == IF isOnBeat
                             THEN Max(0, BeatWindowMs - timeSinceLastBeat)
                             ELSE 0
    IN  [isOnBeat          |-> isOnBeat,
         beatIndex         |-> lastBeatIdx,
         timeSinceLastBeat |-> timeSinceLastBeat,
         timeToNextBeat    |-> timeToNextBeat,
         beatIntensity     |-> beatIntensity]

\* useState<BeatState> initial value
InitialBeatState ==
    [isOnBeat |-> FALSE, beatIndex |-> -1, timeSinceLastBeat |-> 0,
     timeToNextBeat |-> 0, beatIntensity |-> 0]

NoHelperState == [isOnBeat |-> FALSE, intensity |-> 0, index |-> -1]

BeatIdle ==
    /\ beats = <<>>
    /\ currentTime = 0
    /\ duration = 0
    /\ beatState = InitialBeatState
    /\ hookRan = FALSE
    /\ helperState = NoHelperState
    /\ helperRan = FALSE

BeatInit ==
    /\ beats \in {s \in SeqsUpTo(BeatGrid, MaxBeats) : IsAscending(s)}
    /\ currentTime \in BeatTimestamps
    /\ duration \in Durations
    /\ beatState = InitialBeatState
    /\ hookRan = FALSE
    /\ helperState = NoHelperState
    /\ helperRan = FALSE

\* one run of the hook's updateFeatures: sample the analyser, set the features,
\* set the beat state at the current position
UpdateFeatures ==
    /\ ~hookRan
    /\ features' = ExtractFeatures(freqData, timeData)
    /\ beatState' = updateFeaturesBeat(beats, currentTime, duration)
    /\ hookRan' = TRUE
    /\ UNCHANGED <<beats, currentTime, duration, helperState, helperRan>>
    /\ UNCHANGED <<freqData, timeData>>
    /\ UNCHANGED <<interpVars, shaderVars, batchVars, sectionVars, clientVars>>

\* the batch frame evaluates the helper at the same timestamp
GetBeatStateAtTime ==
    /\ ~helperRan
    /\ helperState' = getBeatStateAtTime(beats, currentTime)
    /\ helperRan' = TRUE
    /\ UNCHANGED <<beats, currentTime, duration, beatState, hookRan>>
    /\ UNCHANGED <<interpVars, liveVars, shaderVars, batchVars, sectionVars, clientVars>>

-----------------------------------------------------------------------------
(* Time-series interpolator *)

RECURSIVE BinarySearchStrict(_, _, _, _)
\* variant: the comparison of the sample at mid is strict
BinarySearchStrict(ts, target, lo, hi) ==
    IF lo < hi - 1
    THEN LET mid == (lo + hi) \div 2
         IN  IF At(ts, mid) < target
             THEN BinarySearchStrict(ts, target, mid, hi)
             ELSE BinarySearchStrict(ts, target, lo, mid)
    ELSE <<lo, hi>>

RECURSIVE BinarySearch(_, _, _, _)
\* the while loop of interpolateFeature: returns <<lo, hi>> at loop exit
BinarySearch(ts, target, lo, hi) ==
    IF lo < hi - 1
    THEN LET mid == (lo + hi) \div 2
         IN  IF At(ts, mid) <= target
             THEN BinarySearch(ts, target, mid, hi)
             ELSE BinarySearch(ts, target, lo, mid)
    ELSE <<lo, hi>>

\* variant: the two endpoints are swapped
LerpSwapped(t0, t1, v0, v1, target) ==
    IF t1 = t0
    THEN Frac(v0, 1)
    ELSE Frac(v1 * (t1 - t0) + (v0 - v1) * (target - t0), t1 - t0)

\* "Linear interpolation": v0 when t1 === t0, else v0 + (v1 - v0) * ratio with
\* ratio = (targetTime - t0) / (t1 - t0), as one exact fraction over t1 - t0
Lerp(t0, t1, v0, v1, target) ==
    IF t1 = t0
    THEN Frac(v0, 1)
    ELSE Frac(v0 * (t1 - t0) + (v1 - v0) * (target - t0), t1 - t0)

\* the part of interpolateFeature after the two clamps: search, then interpolate
InterpolateInterior(ts, vs, target, hi0) ==
    LET b  == BinarySearch(ts, target, 0, hi0)
        lo == b[1]
        hi == b[2]
        t0 == At(ts, lo)
        t1 == At(ts, hi)
    IN  [path   |-> IF t1 = t0 THEN "flat" ELSE "lerp",
         lo     |-> lo,
         hi     |-> hi,
         result |-> Lerp(t0, t1, At(vs, lo), At(vs, hi), target)]

\* variant: the clamp at the last sample is missing, so a late query extrapolates
interpolateFeatureRunNoUpperClamp(ts, vs, target) ==
    IF Len(ts) = 0 \/ Len(vs) = 0
    THEN [path |-> "empty", lo |-> 0, hi |-> 0, result |-> Frac(0, 1)]
    ELSE IF target <= At(ts, 0)
    THEN [path |-> "first", lo |-> 0, hi |-> Len(ts) - 1,
          result |-> Frac(At(vs, 0), 1)]
    ELSE InterpolateInterior(ts, vs, target, Len(ts) - 1)

\* values[i] read without "?? 0": a read past the end is undefined, and
\* arithmetic on it is NaN (the 0/0 fraction)
ValueOrNaN(vs, i) == IF i >= 0 /\ i < Len(vs) THEN Frac(vs[i + 1], 1) ELSE Frac(0, 0)

\* variant: the values are read without the "?? 0" defaults
interpolateFeatureRunNoDefaults(ts, vs, target) ==
    IF Len(ts) = 0 \/ Len(vs) = 0
    THEN [path |-> "empty", lo |-> 0, hi |-> 0, result |-> Frac(0, 1)]
    ELSE IF target <= At(ts, 0)
    THEN [path |-> "first", lo |-> 0, hi |-> Len(ts) - 1,
          result |-> ValueOrNaN(vs, 0)]
    ELSE IF target >= At(ts, Len(ts) - 1)
    THEN [path |-> "last", lo |-> 0, hi |-> Len(ts) - 1,
          result |-> ValueOrNaN(vs, Len(ts) - 1)]
    ELSE LET run == InterpolateInterior(ts, vs, target, Len(ts) - 1)
         IN  IF run.hi < Len(vs) THEN run ELSE [run EXCEPT !.result = Frac(0, 0)]

\* the whole function: the return statement taken, lo and hi at that point, and
\* the value returned
interpolateFeatureRun(ts, vs, target) ==
    IF Len(ts) = 0 \/ Len(vs) = 0
    THEN [path |-> "empty", lo |-> 0, hi |-> 0, result |-> Frac(0, 1)]
    ELSE IF target <= At(ts, 0)
    THEN [path |-> "first", lo |-> 0, hi |-> Len(ts) - 1,
          result |-> Frac(At(vs, 0), 1)]
    ELSE IF target >= At(ts, Len(ts) - 1)
    THEN [path |-> "last", lo |-> 0, hi |-> Len(ts) - 1,
          result |-> Frac(At(vs, Len(ts) - 1), 1)]
    ELSE InterpolateInterior(ts, vs, target, Len(ts) - 1)

interpolateFeature(ts, vs, target) == interpolateFeatureRun(ts, vs, target).result

InterpIdle ==
    /\ times = <<>>
    /\ values = <<>>
    /\ targetTime = 0
    /\ searchLo = 0
    /\ searchHi = 0
    /\ interpPath = "none"
    /\ interpResult = Frac(0, 1)

InterpInit ==
    /\ times \in {s \in SeqsUpTo(0..MaxTime, MaxLen) : IsAscending(s)}
    /\ values \in SeqsUpTo(FeatureValues, MaxLen)
    /\ targetTime \in -1..(MaxTime + 1)
    /\ searchLo = 0
    /\ searchHi = 0
    /\ interpPath = "none"
    /\ interpResult = Frac(0, 1)

\* any arrays of numbers, sorted or not, of equal length or not
AnyTimes == {0, 2, 4}
InterpAnyInit ==
    /\ times \in SeqsUpTo(AnyTimes, MaxLen)
    /\ values \in SeqsUpTo({0, 100}, MaxLen)
    /\ targetTime \in -1..(MaxTime + 1)
    /\ searchLo = 0
    /\ searchHi = 0
    /\ interpPath = "none"
    /\ interpResult = Frac(0, 1)

InterpolateFeature ==
    /\ interpPath = "none"
    /\ LET r == interpolateFeatureRun(times, values, targetTime)
       IN  /\ interpPath' = r.path
           /\ searchLo' = r.lo
           /\ searchHi' = r.hi
           /\ interpResult' = r.result
    /\ UNCHANGED <<times, values, targetTime>>
    /\ UNCHANGED <<beatVars, liveVars, shaderVars, batchVars, sectionVars, clientVars>>

-----------------------------------------------------------------------------
(* Shader scene *)

\* source texts a caller may supply; "" stands for no custom shader
ShaderSources == {"", "glslA", "glslB", "glslBroken"}

FALLBACK_SHADER == "fallbackPlasma"

\* whether the GPU compiles a user body (wrapped in the prologue) without error
Compiles(userCode) == userCode # "glslBroken"

\* prologue (precision and uniform declarations), the user's body, the main adapter
buildFragmentShader(userCode) == <<"prologue", userCode, "main">>

Sizes == {<<800, 600>>, <<1024, 768>>}

ClockTimes == {k * 20 : k \in 0..MaxClock}

\* materialRef.current before the first effect run
NoMaterial == [fragmentShader |-> <<>>]

\* useMemo(() => ({ iTime: ..., ... }), [])
InitialUniforms(sz) ==
    [iTime              |-> 0,
     iResolution        |-> sz,
     u_bass             |-> Frac(0, 1),
     u_lowMid           |-> Frac(0, 1),
     u_mid              |-> Frac(0, 1),
     u_highMid          |-> Frac(0, 1),
     u_treble           |-> Frac(0, 1),
     u_energy           |-> [sqrtOf |-> Frac(0, 1)],
     u_beat             |-> 0,
     u_spectralCentroid |-> Frac(1, 2)]

\* outcomes of new THREE.ShaderMaterial(...): the constructor stores the source
\* and compiles nothing (three.js compiles at the first draw), so it returns;
\* a throw is kept as a possible outcome for a source that does not compile
ConstructorThrows(userCode) == IF Compiles(userCode) THEN {FALSE} ELSE {FALSE, TRUE}

\* variant: the fallback is chosen by ?? (null or undefined only), so an empty
\* source text is wrapped as it is
BuildShaderMaterialNullish(code, threw) ==
    IF ~threw
    THEN [fragmentShader |-> buildFragmentShader(code)]
    ELSE [fragmentShader |-> buildFragmentShader(FALLBACK_SHADER)]

\* the useMemo body for shaderMaterial
BuildShaderMaterial(code, threw) ==
    LET codeToUse == IF code # "" THEN code ELSE FALLBACK_SHADER
    IN  IF ~threw
        THEN [fragmentShader |-> buildFragmentShader(codeToUse)]
        ELSE [fragmentShader |-> buildFragmentShader(FALLBACK_SHADER)]

\* history of the scene since its last source change: whether the program bound
\* before that change was the fallback standing in for an invalid source, and
\* whether the viewport was resized after it
NoHistory == [fellBack |-> FALSE, resized |-> FALSE]

\* state after the first render of ShaderScene, before its effects have run
ShaderMount(code) ==
    /\ shaderCode = code
    /\ \E threw \in ConstructorThrows(code) :
           shaderMaterial = BuildShaderMaterial(code, threw)
    /\ materialEffect = TRUE
    /\ sizeEffect = TRUE
    /\ materialRef = NoMaterial
    /\ errorCheckedRef = FALSE
    /\ size \in Sizes
    /\ uniforms = InitialUniforms(size)
    /\ elapsedTime = 0
    /\ glError = FALSE
    /\ hasDebugExt \in BOOLEAN
    /\ errorCalls = 0
    /\ drawn = <<>>
    /\ sinceChange = NoHistory

ShaderInit == ShaderMount("")

ShaderIdle ==
    /\ shaderCode = ""
    /\ shaderMaterial = BuildShaderMaterial("", FALSE)
    /\ materialEffect = FALSE
    /\ sizeEffect = FALSE
    /\ materialRef = NoMaterial
    /\ errorCheckedRef = FALSE
    /\ size = <<800, 600>>
    /\ uniforms = InitialUniforms(size)
    /\ elapsedTime = 0
    /\ glError = FALSE
    /\ hasDebugExt = FALSE
    /\ errorCalls = 0
    /\ drawn = <<>>
    /\ sinceChange = NoHistory

\* variant: useMemo without the dependency on shaderCode keeps the first material
SetShaderSourceNoRebuild ==
    \E code \in ShaderSources \ {shaderCode} :
        /\ shaderCode' = code
        /\ errorCalls' = 0
        /\ drawn' = <<>>
        /\ sinceChange' =
               [fellBack |-> /\ shaderCode # ""
                             /\ ~Compiles(shaderCode)
                             /\ shaderMaterial.fragmentShader =
                                    buildFragmentShader(FALLBACK_SHADER),
                resized  |-> FALSE]
        /\ UNCHANGED <<shaderMaterial, materialEffect, sizeEffect, materialRef,
                       errorCheckedRef, uniforms, size, elapsedTime, glError,
                       hasDebugExt>>
        /\ UNCHANGED <<beatVars, interpVars, liveVars, batchVars, sectionVars, clientVars>>

\* the caller supplies a new source text: ShaderScene renders again, useMemo
\* rebuilds the material (its dependency shaderCode changed), the new material
\* is attached to the mesh and the effect on [shaderMaterial] is scheduled
SetShaderSource ==
    \E code \in ShaderSources \ {shaderCode} :
    \E threw \in ConstructorThrows(code) :
        /\ shaderCode' = code
        /\ shaderMaterial' = BuildShaderMaterial(code, threw)
        /\ materialEffect' = TRUE
        /\ errorCalls' = 0
        /\ drawn' = <<>>
        /\ sinceChange' =
               [fellBack |-> /\ shaderCode # ""
                             /\ ~Compiles(shaderCode)
                             /\ shaderMaterial.fragmentShader =
                                    buildFragmentShader(FALLBACK_SHADER),
                resized  |-> FALSE]
        /\ UNCHANGED <<sizeEffect, materialRef, errorCheckedRef, uniforms, size,
                       elapsedTime, glError, hasDebugExt>>
        /\ UNCHANGED <<beatVars, interpVars, liveVars, batchVars, sectionVars, clientVars>>

\* variant: size is a dependency of useMemo, so a resize rebuilds the material
ResizeRebuilds ==
    \E sz \in Sizes \ {size} :
    \E threw \in ConstructorThrows(shaderCode) :
        /\ size' = sz
        /\ sizeEffect' = TRUE
        /\ shaderMaterial' = BuildShaderMaterial(shaderCode, threw)
        /\ materialEffect' = TRUE
        /\ sinceChange' = [sinceChange EXCEPT !.resized = TRUE]
        /\ UNCHANGED <<shaderCode, materialRef, errorCheckedRef, uniforms,
                       elapsedTime, glError, hasDebugExt, errorCalls, drawn>>
        /\ UNCHANGED <<beatVars, interpVars, liveVars, batchVars, sectionVars, clientVars>>

\* the viewport is resized: ShaderScene renders again with the new size; the
\* dependencies of useMemo are unchanged, the effect on [size] is scheduled
Resize ==
    \E sz \in Sizes \ {size} :
        /\ size' = sz
        /\ sizeEffect' = TRUE
        /\ sinceChange' = [sinceChange EXCEPT !.resized = TRUE]
        /\ UNCHANGED <<shaderCode, shaderMaterial, materialEffect, materialRef,
                       errorCheckedRef, uniforms, elapsedTime, glError, hasDebugExt,
                       errorCalls, drawn>>
        /\ UNCHANGED <<beatVars, interpVars, liveVars, batchVars, sectionVars, clientVars>>

\* React runs the scheduled effects of the last commit
FlushEffects ==
    /\ materialEffect \/ sizeEffect
    /\ materialRef' = IF materialEffect THEN shaderMaterial ELSE materialRef
    /\ errorCheckedRef' = IF materialEffect THEN FALSE ELSE errorCheckedRef
    /\ uniforms' = IF sizeEffect THEN [uniforms EXCEPT !.iResolution = size]
                   ELSE uniforms
    /\ materialEffect' = FALSE
    /\ sizeEffect' = FALSE
    /\ UNCHANGED <<shaderCode, shaderMaterial, size, elapsedTime, glError,
                   hasDebugExt, errorCalls, drawn, sinceChange>>
    /\ UNCHANGED <<beatVars, interpVars, liveVars, batchVars, sectionVars, clientVars>>

\* variant: the compile-error check is repeated on every frame
NeedsErrorCheckEveryFrame == TRUE

\* if (!errorCheckedRef.current)
NeedsErrorCheck == ~errorCheckedRef

\* variant: the beat uniform accumulates instead of being assigned
UpdateUniformsAccumulating(u, now, sz, feat, beat) ==
    LET timed == [u EXCEPT !.iTime = now, !.iResolution = sz]
        fed   == IF feat # NullFeatures
                 THEN [timed EXCEPT
                          !.u_bass             = feat.energyBands.bass,
                          !.u_lowMid           = feat.energyBands.lowMid,
                          !.u_mid              = feat.energyBands.mid,
                          !.u_highMid          = feat.energyBands.highMid,
                          !.u_treble           = feat.energyBands.treble,
                          !.u_energy           = feat.rms,
                          !.u_spectralCentroid = feat.spectralCentroid]
                 ELSE timed
    IN  [fed EXCEPT !.u_beat = IF u.u_beat < 4 * BeatWindowMs
                               THEN u.u_beat + beat.beatIntensity
                               ELSE u.u_beat]

\* variant: the callback returns before any write when features is null
UpdateUniformsSkipsWithoutFeatures(u, now, sz, feat, beat) ==
    IF feat = NullFeatures
    THEN u
    ELSE [u EXCEPT !.iTime              = now,
                   !.iResolution        = sz,
                   !.u_bass             = feat.energyBands.bass,
                   !.u_lowMid           = feat.energyBands.lowMid,
                   !.u_mid              = feat.energyBands.mid,
                   !.u_highMid          = feat.energyBands.highMid,
                   !.u_treble           = feat.energyBands.treble,
                   !.u_energy           = feat.rms,
                   !.u_spectralCentroid = feat.spectralCentroid,
                   !.u_beat             = beat.beatIntensity]

\* the uniform writes of the useFrame callback
UpdateUniforms(u, now, sz, feat, beat) ==
    LET timed == [u EXCEPT !.iTime = now, !.iResolution = sz]
        fed   == IF feat # NullFeatures
                 THEN [timed EXCEPT
                          !.u_bass             = feat.energyBands.bass,
                          !.u_lowMid           = feat.energyBands.lowMid,
                          !.u_mid              = feat.energyBands.mid,
                          !.u_highMid          = feat.energyBands.highMid,
                          !.u_treble           = feat.energyBands.treble,
                          !.u_energy           = feat.rms,
                          !.u_spectralCentroid = feat.spectralCentroid]
                 ELSE timed
    IN  [fed EXCEPT !.u_beat = beat.beatIntensity]

\* one animation frame: the useFrame callback, then the renderer draws the mesh
\* with the material attached to it.  Drawing a program that does not compile
\* may leave an error flag in the GL context; getError returns and clears it.
Frame ==
    \E now \in {c \in ClockTimes : c >= elapsedTime} :
    \E raised \in BOOLEAN :
        LET hasMat    == materialRef # NoMaterial
            checking  == hasMat /\ NeedsErrorCheck
            reading   == checking /\ hasDebugExt
            reported  == reading /\ glError
            afterRead == IF reading THEN FALSE ELSE glError
            body      == shaderMaterial.fragmentShader[2]
        IN  /\ elapsedTime' = now
            /\ errorCheckedRef' = IF checking THEN TRUE ELSE errorCheckedRef
            /\ errorCalls' = IF reported THEN errorCalls + 1 ELSE errorCalls
            /\ uniforms' = IF hasMat
                           THEN UpdateUniforms(uniforms, now, size, features, beatState)
                           ELSE uniforms
            /\ drawn' = shaderMaterial.fragmentShader
            /\ glError' = IF body # FALLBACK_SHADER /\ ~Compiles(body) /\ raised
                          THEN TRUE
                          ELSE afterRead
            /\ UNCHANGED <<shaderCode, shaderMaterial, materialEffect, sizeEffect,
                           materialRef, size, hasDebugExt, sinceChange>>
            /\ UNCHANGED <<beatVars, interpVars, liveVars, batchVars, sectionVars, clientVars>>

-----------------------------------------------------------------------------
(* Batch frame *)

\* currentTime >= (sections[i]?.startTime ?? 0)
StartOf(secs, i) == IF i >= 0 /\ i < Len(secs) THEN secs[i + 1].startTime ELSE 0

NullSection == [null |-> TRUE]

\* sections[i] ?? null
SectionAt(secs, i) == IF i >= 0 /\ i < Len(secs) THEN secs[i + 1] ELSE NullSection

RECURSIVE SectionScanStrict(_, _, _)
\* variant: a section is entered only after its start (> for >=)
SectionScanStrict(secs, t, i) ==
    IF i >= 0
    THEN IF t > StartOf(secs, i) THEN SectionAt(secs, i)
         ELSE SectionScanStrict(secs, t, i - 1)
    ELSE SectionAt(secs, 0)

RECURSIVE SectionScan(_, _, _)
\* the backward for loop of getCurrentSection and the return after it
SectionScan(secs, t, i) ==
    IF i >= 0
    THEN IF t >= StartOf(secs, i) THEN SectionAt(secs, i) ELSE SectionScan(secs, t, i - 1)
    ELSE SectionAt(secs, 0)

getCurrentSection(secs, t) == SectionScan(secs, t, Len(secs) - 1)

getAudioFeaturesAtTime(an, t) ==
    [rms              |-> interpolateFeature(an.spectral.times, an.spectral.rms, t),
     spectralCentroid |-> interpolateFeature(an.spectral.times, an.spectral.spectralCentroid, t),
     bass             |-> interpolateFeature(an.spectral.times, an.spectral.energyBands.bass, t),
     mid              |-> interpolateFeature(an.spectral.times, an.spectral.energyBands.mid, t),
     treble           |-> interpolateFeature(an.spectral.times, an.spectral.energyBands.treble, t),
     harmonicEnergy   |-> interpolateFeature(an.spectral.times, an.harmonicPercussive.harmonicEnergy, t),
     percussiveEnergy |-> interpolateFeature(an.spectral.times, an.harmonicPercussive.percussiveEnergy, t)]

\* frame / fps in ms; the frame rates of the model divide 1000, so it is exact
FrameTime(f, rate) == (f * 1000) \div rate

Abs(x) == IF x < 0 THEN 0 - x ELSE x

\* the values MusicVisualizerFrame computes before it builds its layers
MusicVisualizerFrame(secs, an, bs, dur, rate, f) ==
    LET t               == FrameTime(f, rate)
        currentSection  == getCurrentSection(secs, t)
        sectionStart    == IF currentSection # NullSection
                           THEN currentSection.startTime ELSE 0
        sectionEnd      == IF currentSection # NullSection
                           THEN currentSection.endTime ELSE dur
        sectionDuration == sectionEnd - sectionStart
    IN  [currentTime         |-> t,
         currentSection      |-> currentSection,
         beatState           |-> getBeatStateAtTime(bs, t),
         audioFeatures       |-> getAudioFeaturesAtTime(an, t),
         isSectionTransition |->
             \E i \in 1..Len(secs) :
                 Abs(t - secs[i].startTime) < 250 /\ secs[i].startTime > 0,
         transitionProgress  |->
             IF sectionDuration > 0
             THEN Frac(t - sectionStart, sectionDuration)
             ELSE Frac(1, 1)]

\* an analysis whose series are sampled every 40 ms; sample values are in
\* hundredths (100 is 1.0)
MakeAnalysis(a, b) ==
    [spectral |->
         [times            |-> <<0, 40, 80>>,
          rms              |-> <<a, b, a>>,
          spectralCentroid |-> <<b, a, b>>,
          energyBands      |-> [bass |-> <<a, b, b>>, lowMid |-> <<b, a, a>>,
                                mid |-> <<b, b, a>>, highMid |-> <<a, b, a>>,
                                treble |-> <<a, a, b>>]],
     harmonicPercussive |->
         [harmonicEnergy |-> <<b, a, a>>, percussiveEnergy |-> <<a, b, a>>]]

Analyses == {MakeAnalysis(a, b) : a, b \in FeatureValues}

Fps == {25, 50}

SectionLists ==
    {<<>>,
     <<[label |-> "intro", startTime |-> 0, endTime |-> 40],
       [label |-> "verse", startTime |-> 40, endTime |-> 400]>>}

NoBatchFrame == [null |-> TRUE]

\* no frame has been evaluated
NoneEvaluated == [f \in 0..MaxFrame |-> NoBatchFrame]

BatchIdle ==
    /\ analysis = MakeAnalysis(0, 0)
    /\ sections = <<>>
    /\ fps = 25
    /\ frame = 0
    /\ batchFrame = NoBatchFrame
    /\ batchRan = FALSE
    /\ evaluated = NoneEvaluated

BatchInit ==
    /\ analysis \in Analyses
    /\ sections \in SectionLists
    /\ fps \in Fps
    /\ frame \in 0..MaxFrame
    /\ batchFrame = NoBatchFrame
    /\ batchRan = FALSE
    /\ evaluated = NoneEvaluated

\* the batch renderer evaluates one frame
RenderFrame ==
    /\ ~batchRan
    /\ batchFrame' = MusicVisualizerFrame(sections, analysis, beats, duration, fps, frame)
    /\ batchRan' = TRUE
    /\ UNCHANGED <<analysis, sections, fps, frame, evaluated>>
    /\ UNCHANGED <<beatVars, interpVars, liveVars, shaderVars, sectionVars, clientVars>>

\* section lists sorted by start time (two sections may share a start), on a
\* grid of SectionGridMs; a section is identified by its position
SectionStarts == {k * SectionGridMs : k \in 0..MaxSectionStart}

MakeSections(starts) ==
    [i \in 1..Len(starts) |->
        [label |-> i - 1, startTime |-> starts[i], endTime |-> starts[i] + SectionGridMs]]

SortedSectionLists ==
    {MakeSections(st) : st \in {q \in SeqsUpTo(SectionStarts, MaxSections) : IsAscending(q)}}

\* queries half a grid step before the first start up to a step past the last end
SectionTimes == {(k * SectionGridMs) \div 2 : k \in -1..(2 * MaxSectionStart + 4)}

NotResolved == [pending |-> TRUE]

SectionIdle ==
    /\ sectionList = <<>>
    /\ sectionTime = 0
    /\ sectionResult = NotResolved

SectionInit ==
    /\ sectionList \in SortedSectionLists
    /\ sectionTime \in SectionTimes
    /\ sectionResult = NotResolved

\* one call getCurrentSection(sections, currentTime)
GetCurrentSection ==
    /\ sectionResult = NotResolved
    /\ sectionResult' = getCurrentSection(sectionList, sectionTime)
    /\ UNCHANGED <<sectionList, sectionTime>>
    /\ UNCHANGED <<beatVars, interpVars, liveVars, shaderVars, batchVars, clientVars>>

\* variant: the renderer keeps a frame cursor and evaluates the frame after
\* the one it evaluated last, whatever frame number it is asked for
RenderAnyFrameFromCursor ==
    \E f \in 0..MaxFrame :
        /\ frame' = f
        /\ batchFrame' = MusicVisualizerFrame(sections, analysis, beats, duration, fps,
                                              IF batchRan THEN frame + 1 ELSE f)
        /\ batchRan' = TRUE
        /\ evaluated' = IF evaluated[f] = NoBatchFrame
                        THEN [evaluated EXCEPT ![f] = batchFrame']
                        ELSE evaluated
        /\ UNCHANGED <<analysis, sections, fps>>
        /\ UNCHANGED <<beatVars, interpVars, liveVars, shaderVars, sectionVars, clientVars>>

\* the batch renderer evaluates the frames of a composition in any order, any
\* frame any number of times
RenderAnyFrame ==
    \E f \in 0..MaxFrame :
        /\ frame' = f
        /\ batchFrame' = MusicVisualizerFrame(sections, analysis, beats, duration, fps, f)
        /\ batchRan' = TRUE
        /\ evaluated' = IF evaluated[f] = NoBatchFrame
                        THEN [evaluated EXCEPT ![f] = batchFrame']
                        ELSE evaluated
        /\ UNCHANGED <<analysis, sections, fps>>
        /\ UNCHANGED <<beatVars, interpVars, liveVars, shaderVars, sectionVars, clientVars>>

-----------------------------------------------------------------------------
(* Chat websocket client *)

RECURSIVE Pow2(_)
\* Math.pow(2, n)
Pow2(n) == IF n <= 0 THEN 1 ELSE 2 * Pow2(n - 1)

\* a socket that can still deliver an open or a close event
Live(state) == state \in {"connecting", "open"}

WsIdle ==
    /\ sockets = <<>>
    /\ ws = 0
    /\ reconnectAttempts = 0
    /\ maxReconnectAttempts = 5
    /\ reconnectTimers = {}
    /\ wsConnectCalled = FALSE
    /\ wsDisconnected = FALSE
    /\ socketsAfterDisconnect = 0


\* new ChatWebSocket(sessionId)
WsInit == WsIdle

-----------------------------------------------------------------------------
(* Chat store, shader auto-generation and the stream of websocket messages *)

NoSpec == "null"
NoShader == "null"

\* render specs the server sends: the first carries globalStyle.shaderDescription
RenderSpecs == {"specWithShaderDescription", "specPlain"}
HasShaderDescription(spec) == spec = "specWithShaderDescription"

ChatPhases == {"analysis", "refinement", "confirmation", "rendering", "editing"}

\* message contents are sequences of tokens; + is \o
ChunkContents == {<<"a">>, <<"b">>}

ChatIdle ==
    /\ phase = "analysis"
    /\ renderSpec = NoSpec
    /\ messages = <<>>
    /\ isStreaming = FALSE
    /\ providerConnected = FALSE
    /\ customShaderCode = NoShader
    /\ pendingGenerations = 0
    /\ lastRenderedSpec = NoSpec
    /\ effectPending = FALSE
    /\ startInFlight = 0
    /\ polling = FALSE
    /\ cleanupRegistered = FALSE
    /\ pollFailures = 0
    /\ submittedShader = "notSubmitted"
    /\ failedSince = FALSE
    /\ streamIdx = 0
    /\ streamChunks = <<>>
    /\ streamState = "idle"

\* the stores as created, the provider and the panel as mounted
ChatInit == ChatIdle

ClientIdle == WsIdle /\ ChatIdle

\* addMessage
addMessage(msgs, message) == Append(msgs, message)

\* updateLastAssistantMessage
updateLastAssistantMessage(msgs, content) ==
    LET lastIdx == Len(msgs)
    IN  IF lastIdx >= 1 /\ msgs[lastIdx].role = "assistant"
        THEN [msgs EXCEPT ![lastIdx] =
                 [msgs[lastIdx] EXCEPT !.content = content, !.isStreaming = TRUE]]
        ELSE msgs

\* the messages written by setIsStreaming(false)
MarkLastNotStreaming(msgs) ==
    LET lastIdx == Len(msgs)
    IN  IF lastIdx >= 1 /\ msgs[lastIdx].role = "assistant"
        THEN [msgs EXCEPT ![lastIdx] = [msgs[lastIdx] EXCEPT !.isStreaming = FALSE]]
        ELSE msgs

\* what the panel and the render job keep while a websocket message is handled
KeepRender ==
    UNCHANGED <<lastRenderedSpec, startInFlight, polling, cleanupRegistered,
                pollFailures, submittedShader, failedSince>>

KeepStream == UNCHANGED <<streamIdx, streamChunks, streamState>>

\* case "stream_start"
StreamStart ==
    /\ streamState # "streaming"
    /\ Len(messages) < MaxMessages
    /\ isStreaming' = TRUE
    /\ messages' = addMessage(messages,
                       [role |-> "assistant", content |-> <<>>, isStreaming |-> TRUE])
    /\ streamIdx' = Len(messages) + 1
    /\ streamChunks' = <<>>
    /\ streamState' = "streaming"
    /\ UNCHANGED <<phase, renderSpec, providerConnected, customShaderCode,
                   pendingGenerations, effectPending>>
    /\ KeepRender
    /\ UNCHANGED <<coreVars, wsVars>>

\* case "stream_chunk" with a non-empty content
StreamChunk ==
    \E chunk \in ChunkContents :
        /\ streamState = "streaming"
        /\ Len(streamChunks) < MaxChunks
        /\ LET lastMsgContent == IF Len(messages) >= 1
                                 THEN messages[Len(messages)].content
                                 ELSE <<>>
           IN  messages' = updateLastAssistantMessage(messages, lastMsgContent \o chunk)
        /\ streamChunks' = streamChunks \o chunk
        /\ UNCHANGED <<phase, renderSpec, isStreaming, providerConnected,
                       customShaderCode, pendingGenerations, effectPending,
                       streamIdx, streamState>>
        /\ KeepRender
        /\ UNCHANGED <<coreVars, wsVars>>

\* case "stream_end"
StreamEnd ==
    /\ streamState = "streaming"
    /\ isStreaming' = FALSE
    /\ messages' = MarkLastNotStreaming(messages)
    /\ streamState' = "ended"
    /\ UNCHANGED <<phase, renderSpec, providerConnected, customShaderCode,
                   pendingGenerations, effectPending, streamIdx, streamChunks>>
    /\ KeepRender
    /\ UNCHANGED <<coreVars, wsVars>>

\* case "system": the binding notice sets isConnected, any other content is
\* added to the chat
SystemMessage ==
    \E bound \in BOOLEAN :
        /\ IF bound
           THEN /\ ~providerConnected
                /\ providerConnected' = TRUE
                /\ UNCHANGED messages
           ELSE /\ Len(messages) < MaxMessages
                /\ messages' = addMessage(messages,
                                   [role |-> "system", content |-> <<"note">>,
                                    isStreaming |-> FALSE])
                /\ UNCHANGED providerConnected
        /\ UNCHANGED <<phase, renderSpec, isStreaming, customShaderCode,
                       pendingGenerations, effectPending>>
        /\ KeepRender
        /\ KeepStream
        /\ UNCHANGED <<coreVars, wsVars>>

\* case "phase": setPhase; the panel renders again and its render effect,
\* which depends on phase, is scheduled
PhaseMessage ==
    \E p \in ChatPhases \ {phase} :
        /\ phase' = p
        /\ effectPending' = TRUE
        /\ UNCHANGED <<renderSpec, messages, isStreaming, providerConnected,
                       customShaderCode, pendingGenerations>>
        /\ KeepRender
        /\ KeepStream
        /\ UNCHANGED <<coreVars, wsVars>>

\* case "render_spec": setRenderSpec (a new object, so the render effect is
\* scheduled), and autoGenerateShader is started when the phase is neither
\* editing nor rendering, no shader is installed and the spec describes one
RenderSpecMessage ==
    \E spec \in RenderSpecs :
        /\ renderSpec' = spec
        /\ effectPending' = TRUE
        /\ IF /\ phase # "editing"
              /\ phase # "rendering"
              /\ customShaderCode = NoShader
              /\ HasShaderDescription(spec)
           THEN /\ pendingGenerations < MaxGenerations
                /\ pendingGenerations' = pendingGenerations + 1
           ELSE UNCHANGED pendingGenerations
        /\ UNCHANGED <<phase, messages, isStreaming, providerConnected,
                       customShaderCode>>
        /\ KeepRender
        /\ KeepStream
        /\ UNCHANGED <<coreVars, wsVars>>

\* the response of /api/shader/generate arrives: autoGenerateShader installs
\* the shader it returns, or returns without one
GenerationDone ==
    \E ok \in BOOLEAN :
        /\ pendingGenerations > 0
        /\ pendingGenerations' = pendingGenerations - 1
        /\ customShaderCode' = IF ok THEN "generatedShader" ELSE customShaderCode
        /\ UNCHANGED <<phase, renderSpec, messages, isStreaming, providerConnected,
                       effectPending>>
        /\ KeepRender
        /\ KeepStream
        /\ UNCHANGED <<coreVars, wsVars>>

\* the body of connect(): this.ws = new WebSocket(url) with its four handlers
ConnectBody ==
    /\ Len(sockets) < MaxSockets
    /\ sockets' = Append(sockets, "connecting")
    /\ ws' = Len(sockets) + 1
    /\ socketsAfterDisconnect' =
           IF wsDisconnected THEN socketsAfterDisconnect + 1 ELSE socketsAfterDisconnect

\* the owner of the client calls connect() (once, when its effect runs)
WsConnect ==
    /\ ~wsConnectCalled
    /\ wsConnectCalled' = TRUE
    /\ ConnectBody
    /\ UNCHANGED <<reconnectAttempts, maxReconnectAttempts, reconnectTimers,
                   wsDisconnected>>
    /\ UNCHANGED <<coreVars, chatVars>>

\* variant: onopen leaves the attempt count as it is
WsOpenNoReset ==
    \E i \in 1..Len(sockets) :
        /\ sockets[i] = "connecting"
        /\ sockets' = [sockets EXCEPT ![i] = "open"]
        /\ UNCHANGED <<ws, reconnectAttempts, maxReconnectAttempts, reconnectTimers,
                       wsConnectCalled, wsDisconnected, socketsAfterDisconnect>>
        /\ UNCHANGED <<coreVars, chatVars>>

\* a socket opens: its onopen handler runs
WsOpen ==
    \E i \in 1..Len(sockets) :
        /\ sockets[i] = "connecting"
        /\ sockets' = [sockets EXCEPT ![i] = "open"]
        /\ reconnectAttempts' = 0
        /\ UNCHANGED <<ws, maxReconnectAttempts, reconnectTimers, wsConnectCalled,
                       wsDisconnected, socketsAfterDisconnect>>
        /\ UNCHANGED <<coreVars, chatVars>>

\* a socket closes (connection refused or lost, or close() completed): its
\* onclose handler runs
WsClose ==
    \E i \in 1..Len(sockets) :
        /\ sockets[i] \in {"connecting", "open", "closing"}
        /\ sockets' = [sockets EXCEPT ![i] = "closed"]
        /\ IF reconnectAttempts < maxReconnectAttempts
           THEN /\ reconnectAttempts' = reconnectAttempts + 1
                /\ reconnectTimers' = reconnectTimers \cup
                       {[socket  |-> i,
                         attempt |-> reconnectAttempts + 1,
                         delayMs |-> Pow2(reconnectAttempts + 1) * 1000]}
           ELSE UNCHANGED <<reconnectAttempts, reconnectTimers>>
        /\ UNCHANGED <<ws, maxReconnectAttempts, wsConnectCalled, wsDisconnected,
                       socketsAfterDisconnect>>
        /\ UNCHANGED <<coreVars, chatVars>>

\* a reconnect timer fires: () => this.connect()
WsTimer ==
    \E t \in reconnectTimers :
        /\ reconnectTimers' = reconnectTimers \ {t}
        /\ ConnectBody
        /\ UNCHANGED <<reconnectAttempts, maxReconnectAttempts, wsConnectCalled,
                       wsDisconnected>>
        /\ UNCHANGED <<coreVars, chatVars>>

\* the owner calls disconnect() (once, in the cleanup of its effect)
WsDisconnect ==
    /\ wsConnectCalled
    /\ ~wsDisconnected
    /\ maxReconnectAttempts' = 0
    /\ sockets' = IF ws # 0 /\ Live(sockets[ws])
                  THEN [sockets EXCEPT ![ws] = "closing"]
                  ELSE sockets
    /\ ws' = 0
    /\ wsDisconnected' = TRUE
    /\ UNCHANGED <<reconnectAttempts, reconnectTimers, wsConnectCalled,
                   socketsAfterDisconnect>>
    /\ UNCHANGED <<coreVars, chatVars>>

-----------------------------------------------------------------------------
(* Specifications *)

-----------------------------------------------------------------------------
(* Chat panel: render submission and polling *)

\* consecutive poll failures after which the panel gives up
PollFailureLimit == 20

\* the "Render failed ... You can try again" message added to the chat
RenderFailedMessage ==
    [role |-> "system", content |-> <<"renderFailed">>, isStreaming |-> FALSE]

\* the render effect of ChatPanel runs after phase or renderSpec changed: the
\* cleanup of its previous run first, then its body, which submits the render
\* spec with the preview shader unless the spec was submitted before
RunRenderEffect ==
    /\ effectPending
    /\ effectPending' = FALSE
    /\ polling' = IF cleanupRegistered THEN FALSE ELSE polling
    /\ IF /\ phase = "rendering"
          /\ renderSpec # NoSpec
          /\ lastRenderedSpec # renderSpec
       THEN /\ startInFlight < MaxInFlight
            /\ lastRenderedSpec' = renderSpec
            /\ pollFailures' = 0
            /\ startInFlight' = startInFlight + 1
            /\ submittedShader' = customShaderCode
            /\ failedSince' = FALSE
            /\ cleanupRegistered' = TRUE
       ELSE /\ cleanupRegistered' = FALSE
            /\ UNCHANGED <<lastRenderedSpec, pollFailures, startInFlight,
                           submittedShader, failedSince>>
    /\ UNCHANGED <<phase, renderSpec, messages, isStreaming, providerConnected,
                   customShaderCode, pendingGenerations>>
    /\ KeepStream
    /\ UNCHANGED <<coreVars, wsVars>>

\* the response of /api/render/start arrives: with a render_id polling
\* starts, otherwise the catch handler sets the phase back to confirmation
StartResponse ==
    \E ok \in BOOLEAN :
        /\ startInFlight > 0
        /\ startInFlight' = startInFlight - 1
        /\ IF ok
           THEN /\ polling' = TRUE
                /\ UNCHANGED <<phase, effectPending, messages, failedSince>>
           ELSE /\ Len(messages) < MaxMessages
                /\ phase' = "confirmation"
                /\ effectPending' = (effectPending \/ phase # "confirmation")
                /\ messages' = addMessage(messages, RenderFailedMessage)
                /\ failedSince' = TRUE
                /\ UNCHANGED polling
        /\ UNCHANGED <<renderSpec, isStreaming, providerConnected, customShaderCode,
                       pendingGenerations, lastRenderedSpec, cleanupRegistered,
                       pollFailures, submittedShader>>
        /\ KeepStream
        /\ UNCHANGED <<coreVars, wsVars>>

\* one tick of the polling interval with the answer of /api/render/<id>/status
Poll ==
    \E status \in {"rendering", "complete", "error", "unreachable"} :
        /\ polling
        /\ CASE status = "rendering" ->
                  /\ pollFailures' = 0
                  /\ UNCHANGED <<polling, phase, effectPending, messages, failedSince>>
             [] status = "complete" ->
                  /\ pollFailures' = 0
                  /\ polling' = FALSE
                  /\ phase' = "editing"
                  /\ effectPending' = (effectPending \/ phase # "editing")
                  /\ UNCHANGED <<messages, failedSince>>
             [] status = "error" ->
                  /\ Len(messages) < MaxMessages
                  /\ pollFailures' = 0
                  /\ polling' = FALSE
                  /\ phase' = "confirmation"
                  /\ effectPending' = (effectPending \/ phase # "confirmation")
                  /\ messages' = addMessage(messages, RenderFailedMessage)
                  /\ failedSince' = TRUE
             [] status = "unreachable" ->
                  /\ pollFailures' = pollFailures + 1
                  /\ IF pollFailures + 1 >= PollFailureLimit
                     THEN /\ polling' = FALSE
                          /\ phase' = "confirmation"
                          /\ effectPending' = (effectPending \/ phase # "confirmation")
                          /\ failedSince' = TRUE
                     ELSE UNCHANGED <<polling, phase, effectPending, failedSince>>
                  /\ UNCHANGED messages
        /\ UNCHANGED <<renderSpec, isStreaming, providerConnected, customShaderCode,
                       pendingGenerations, lastRenderedSpec, startInFlight,
                       cleanupRegistered, submittedShader>>
        /\ KeepStream
        /\ UNCHANGED <<coreVars, wsVars>>

\* the provider's message handler fed by the server: one stream at a time,
\* with system, phase and render_spec messages in between
SpecChatInit ==
    /\ ChatInit /\ WsIdle
    /\ BeatIdle /\ InterpIdle /\ LiveIdle /\ ShaderIdle /\ BatchIdle /\ SectionIdle
SpecChatNext ==
    \/ StreamStart \/ StreamChunk \/ StreamEnd
    \/ SystemMessage \/ PhaseMessage \/ RenderSpecMessage \/ GenerationDone
SpecChat     == SpecChatInit /\ [][SpecChatNext]_vars

\* the chat panel between the server's phase and render_spec messages, the
\* shader generation and the render server's answers
SpecRenderInit == SpecChatInit
SpecRenderNext ==
    \/ PhaseMessage \/ RenderSpecMessage \/ GenerationDone
    \/ RunRenderEffect \/ StartResponse \/ Poll
SpecRender     == SpecRenderInit /\ [][SpecRenderNext]_vars

\* one chat websocket client from construction to after its disconnect
SpecWsInit ==
    /\ WsInit /\ ChatIdle
    /\ BeatIdle /\ InterpIdle /\ LiveIdle /\ ShaderIdle /\ BatchIdle /\ SectionIdle
SpecWsNext == WsConnect \/ WsOpen \/ WsClose \/ WsTimer \/ WsDisconnect
SpecWs     == SpecWsInit /\ [][SpecWsNext]_vars

\* beat lists of the compositions
SyncBeats == {<<>>, <<0>>, <<40, 120>>}

\* the batch renderer over one composition
SpecBatchInit ==
    /\ analysis \in Analyses
    /\ sections \in SectionLists
    /\ fps \in Fps
    /\ frame = 0
    /\ batchFrame = NoBatchFrame
    /\ batchRan = FALSE
    /\ evaluated = NoneEvaluated
    /\ InterpIdle /\ LiveIdle /\ ShaderIdle /\ SectionIdle /\ ClientIdle
    /\ beats \in SyncBeats
    /\ currentTime = 0
    /\ duration = 1200
    /\ beatState = InitialBeatState
    /\ hookRan = FALSE
    /\ helperState = NoHelperState
    /\ helperRan = FALSE
SpecBatchNext == RenderAnyFrame
SpecBatch     == SpecBatchInit /\ [][SpecBatchNext]_vars

\* the hook's feature extraction over analyser buffers of every length
SpecLiveInit ==
    /\ LiveBuffersInit
    /\ InterpIdle /\ ShaderIdle /\ BatchIdle /\ SectionIdle /\ ClientIdle
    /\ beats = <<0, 500, 1000>>
    /\ currentTime = 520
    /\ duration = 1200
    /\ beatState = InitialBeatState
    /\ hookRan = FALSE
    /\ helperState = NoHelperState
    /\ helperRan = FALSE
SpecLiveNext == UpdateFeatures
SpecLive     == SpecLiveInit /\ [][SpecLiveNext]_vars

SpecSectionInit ==
    SectionInit /\ BeatIdle /\ InterpIdle /\ LiveIdle /\ ShaderIdle /\ BatchIdle /\ ClientIdle
SpecSectionNext == GetCurrentSection
SpecSection     == SpecSectionInit /\ [][SpecSectionNext]_vars

SpecBeatInit == BeatInit /\ InterpIdle /\ LiveIdle /\ ShaderIdle /\ BatchIdle /\ SectionIdle /\ ClientIdle
SpecBeatNext == UpdateFeatures \/ GetBeatStateAtTime
SpecBeat     == SpecBeatInit /\ [][SpecBeatNext]_vars

SpecInterpInit == InterpInit /\ BeatIdle /\ LiveIdle /\ ShaderIdle /\ BatchIdle /\ SectionIdle /\ ClientIdle
SpecInterpNext == InterpolateFeature
SpecInterp     == SpecInterpInit /\ [][SpecInterpNext]_vars

\* interpolateFeature over arrays that need not be a well-formed series
SpecInterpAnyInit == InterpAnyInit /\ BeatIdle /\ LiveIdle /\ ShaderIdle /\ BatchIdle /\ SectionIdle /\ ClientIdle
SpecInterpAnyNext == InterpolateFeature
SpecInterpAny     == SpecInterpAnyInit /\ [][SpecInterpAnyNext]_vars

\* the shader scene fed by the hook, with a fixed beat list and playback position
SpecShaderInit ==
    /\ ShaderInit
    /\ BatchIdle
    /\ SectionIdle /\ ClientIdle
    /\ freqData = StepBuffer(NumBins, NumBins \div 4, 255, 0)
    /\ timeData = FlatBuffer(NumBins, 192)
    /\ features = NullFeatures
    /\ InterpIdle
    /\ beats = <<0, 500, 1000>>
    /\ currentTime = 520
    /\ duration = 1200
    /\ beatState = InitialBeatState
    /\ hookRan = FALSE
    /\ helperState = NoHelperState
    /\ helperRan = FALSE
SpecShaderNext == SetShaderSource \/ Resize \/ FlushEffects \/ Frame \/ UpdateFeatures
SpecShader     == SpecShaderInit /\ [][SpecShaderNext]_vars

\* the preview (hook, then shader frames) and the batch frame at one timestamp:
\* the playback position of the preview is the batch frame's frame / fps
SpecSyncInit ==
    /\ BatchInit
    /\ SectionIdle /\ ClientIdle
    /\ LiveInit
    /\ InterpIdle
    /\ beats \in SyncBeats
    /\ currentTime = FrameTime(frame, fps)
    /\ duration = 1200
    /\ beatState = InitialBeatState
    /\ hookRan = FALSE
    /\ helperState = NoHelperState
    /\ helperRan = FALSE
    /\ shaderCode = ""
    /\ shaderMaterial = BuildShaderMaterial("", FALSE)
    /\ materialEffect = FALSE
    /\ sizeEffect = FALSE
    /\ materialRef = shaderMaterial
    /\ errorCheckedRef = FALSE
    /\ size = <<800, 600>>
    /\ uniforms = InitialUniforms(size)
    /\ elapsedTime = 0
    /\ glError = FALSE
    /\ hasDebugExt = TRUE
    /\ errorCalls = 0
    /\ drawn = <<>>
    /\ sinceChange = NoHistory
\* a preview frame that shows the features the hook has sampled
PreviewFrame == hookRan /\ Frame
SpecSyncNext == UpdateFeatures \/ PreviewFrame \/ RenderFrame
SpecSync     == SpecSyncInit /\ [][SpecSyncNext]_vars

-----------------------------------------------------------------------------
(* Preview against batch, checked under SpecSync *)

RECURSIVE GCD(_, _)
GCD(a, b) == IF b = 0 THEN a ELSE GCD(b, a % b)

\* the fraction in lowest terms (num >= 0, den > 0)
Lowest(f) ==
    LET g == GCD(f.num, f.den)
    IN  IF g = 0 THEN f ELSE Frac(f.num \div g, f.den \div g)

\* a live value in [0,1] equals an interpolated value given in hundredths
SameLevel(live, interp) ==
    /\ interp.num >= 0
    /\ Lowest(live) = Lowest(Frac(interp.num, interp.den * 100))

\* a live rms, held as the fraction under its root, equals an interpolated value
\* given in hundredths
SameRms(live, interp) ==
    /\ interp.num >= 0
    /\ LET r == Lowest(Frac(interp.num, interp.den * 100))
       IN  Lowest(live.sqrtOf) = Lowest(Frac(r.num * r.num, r.den * r.den))

\* C1: at one timestamp t the preview (the hook's features and beat state
\* written to the uniform table by a frame) and the batch frame at frame =
\* t * fps hold the same time value, the same energy-band, loudness and centroid
\* values and the same beat intensity.
C1_PreviewMatchesBatch ==
    (hookRan /\ drawn # <<>> /\ batchRan) =>
        /\ uniforms.iTime = batchFrame.currentTime
        /\ SameLevel(uniforms.u_bass, batchFrame.audioFeatures.bass)
        /\ SameLevel(uniforms.u_mid, batchFrame.audioFeatures.mid)
        /\ SameLevel(uniforms.u_treble, batchFrame.audioFeatures.treble)
        /\ SameRms(uniforms.u_energy, batchFrame.audioFeatures.rms)
        /\ SameLevel(uniforms.u_spectralCentroid, batchFrame.audioFeatures.spectralCentroid)
        /\ uniforms.u_beat = batchFrame.beatState.intensity

-----------------------------------------------------------------------------
(* Properties of the beat state engine, checked under SpecBeat *)

\* indices of the beats at or before the timestamp
ReachedBeats == {i \in 0..(Len(beats) - 1) : At(beats, i) <= currentTime}

\* the latest beat time at or before the timestamp (when ReachedBeats # {})
LatestBeatTime ==
    CHOOSE b \in {At(beats, i) : i \in ReachedBeats} :
        \A i \in ReachedBeats : At(beats, i) <= b

\* C2: for every ascending beat list and timestamp, the hook's beat
\* computation and getBeatStateAtTime return the same on-beat flag, the same
\* beat index and the same beat intensity.
C2_HookMatchesHelper ==
    (hookRan /\ helperRan) =>
        /\ beatState.isOnBeat = helperState.isOnBeat
        /\ beatState.beatIndex = helperState.index
        /\ beatState.beatIntensity = helperState.intensity

C2_Witness ==
    /\ hookRan /\ helperRan
    /\ Len(beats) = 3
    /\ helperState.index = 1
    /\ helperState.isOnBeat
    /\ beatState.beatIntensity = 40

\* C7: when a latest beat b <= t exists, isOnBeat holds exactly when
\* t - b < 80 ms, the intensity is max(0, 1 - (t - b)/0.08) on beat and 0
\* otherwise: 1 at t = b, one half at t = b + 40 ms, and 0 with isOnBeat false
\* at t = b + 100 ms.  (Intensities are in units of 1/BeatWindowMs.)
C7_BeatWindow ==
    (helperRan /\ ReachedBeats # {}) =>
        LET since == currentTime - LatestBeatTime
        IN  /\ helperState.isOnBeat <=> (since < 80)
            /\ helperState.intensity =
                   IF since < 80 THEN Max(0, 80 - since) ELSE 0
            /\ (since = 0) => helperState.intensity = BeatWindowMs
            /\ (since = 40) => 2 * helperState.intensity = BeatWindowMs
            /\ (since = 100) =>
                   (helperState.intensity = 0 /\ ~helperState.isOnBeat)

C7_Witness ==
    /\ helperRan
    /\ beats = <<0, 500, 1000>>
    /\ currentTime = 540
    /\ helperState.isOnBeat
    /\ helperState.intensity = 40
    /\ helperState.index = 1

\* C8: for a strictly increasing beat list the returned index is the greatest
\* i with beats[i] <= t, -1 when there is none, and length - 1 at the last
\* beat time.
C8_BeatIndex ==
    (helperRan /\ IsStrictlyIncreasing(beats)) =>
        /\ ReachedBeats = {} => helperState.index = -1
        /\ ReachedBeats # {} =>
               /\ helperState.index \in ReachedBeats
               /\ \A i \in ReachedBeats : i <= helperState.index
        /\ (Len(beats) > 0 /\ currentTime = At(beats, Len(beats) - 1)) =>
               helperState.index = Len(beats) - 1

C8_Witness ==
    /\ helperRan
    /\ beats = <<0, 500, 1000>>
    /\ currentTime = 1000
    /\ helperState.index = 2

\* C9: when no beat lies at or before the timestamp (empty list, or t before
\* the first beat) the beat state has index -1, isOnBeat false and intensity 0.
C9_NoBeatDefaults ==
    (helperRan /\ ReachedBeats = {}) =>
        /\ helperState.index = -1
        /\ helperState.isOnBeat = FALSE
        /\ helperState.intensity = 0

\* C10: for every beat list and timestamp, negative ones included, the beat
\* intensity of getBeatStateAtTime and of the hook lies in [0, 1]
\* (0..BeatWindowMs in the model's units).
C10_IntensityInUnitInterval ==
    /\ helperRan => helperState.intensity \in 0..BeatWindowMs
    /\ hookRan => beatState.beatIntensity \in 0..BeatWindowMs

-----------------------------------------------------------------------------
(* Properties of the interpolator, checked under SpecInterp *)

\* the series is an AnalysisSeries: non-empty here, parallel arrays, strictly
\* increasing times
IsSeries ==
    /\ Len(times) >= 1
    /\ Len(values) = Len(times)
    /\ IsStrictlyIncreasing(times)

\* C4: for a non-empty series, a query at or before the first time returns
\* values[0] and a query at or after the last time returns the last value; a
\* single-element series returns its one value for every query.
C4_Clamps ==
    (interpPath # "none" /\ IsSeries) =>
        /\ targetTime <= times[1] => interpResult = Frac(values[1], 1)
        /\ targetTime >= times[Len(times)] =>
               interpResult = Frac(values[Len(values)], 1)
        /\ Len(times) = 1 => interpResult = Frac(values[1], 1)

C4_Witness ==
    /\ interpPath = "last"
    /\ IsSeries
    /\ Len(times) = 3
    /\ targetTime > times[3]
    /\ values[3] # values[2]
    /\ interpResult = Frac(values[3], 1)

\* C5: for a query strictly between the first and the last time the binary
\* search ends with hi = lo + 1 and times[lo] <= t < times[hi], and the result
\* is v0 + (v1 - v0) * (t - t0) / (t1 - t0) on that pair; times [0,4], values
\* [0,100], t = 1 gives 25.
C5_LinearBetweenNeighbours ==
    (/\ interpPath # "none"
     /\ IsSeries
     /\ times[1] < targetTime
     /\ targetTime < times[Len(times)]) =>
        /\ interpPath = "lerp"
        /\ searchHi = searchLo + 1
        /\ At(times, searchLo) <= targetTime
        /\ targetTime < At(times, searchHi)
        /\ \A k \in 1..(Len(times) - 1) :
               (times[k] <= targetTime /\ targetTime < times[k + 1]) =>
                   /\ searchLo = k - 1
                   /\ FracEq(interpResult,
                             Frac(values[k] * (times[k + 1] - times[k])
                                    + (values[k + 1] - values[k]) * (targetTime - times[k]),
                                  times[k + 1] - times[k]))
        /\ (times = <<0, 4>> /\ values = <<0, 100>> /\ targetTime = 1) =>
               FracEq(interpResult, Frac(25, 1))

C5_Witness ==
    /\ interpPath = "lerp"
    /\ times = <<0, 4>>
    /\ values = <<0, 100>>
    /\ targetTime = 1
    /\ FracEq(interpResult, Frac(25, 1))

\* C6: for strictly increasing times and every index k, a query at times[k]
\* returns exactly values[k].
C6_ExactAtSamples ==
    (interpPath # "none" /\ IsSeries) =>
        \A k \in 1..Len(times) :
            targetTime = times[k] => FracEq(interpResult, Frac(values[k], 1))

C6_Witness ==
    /\ interpPath = "lerp"
    /\ IsSeries
    /\ Len(times) = 3
    /\ targetTime = times[2]
    /\ values[2] # values[1]
    /\ values[2] # values[3]
    /\ FracEq(interpResult, Frac(values[2], 1))

-----------------------------------------------------------------------------
(* Properties of the shader scene, checked under SpecShader *)

\* C3: when the source supplied does not compile, then once its effects have
\* run and a frame has checked and drawn it, the program drawn is the built-in
\* fallback and onCompileError has been invoked exactly once for that source.
C3_InvalidSourceFallsBackOnce ==
    (/\ shaderCode # ""
     /\ ~Compiles(shaderCode)
     /\ ~materialEffect
     /\ errorCheckedRef
     /\ drawn # <<>>) =>
        /\ drawn = buildFragmentShader(FALLBACK_SHADER)
        /\ errorCalls = 1

-----------------------------------------------------------------------------
(* Section resolver *)

\* positions (0-based) of the sections that have started at t
StartedSections(secs, t) == {i \in 0..(Len(secs) - 1) : secs[i + 1].startTime <= t}

\* C11: for a section list sorted by start time, getCurrentSection returns the
\* section of highest index whose start is <= t (the last section past every
\* end, the later of two sections sharing a start), the first section when t
\* precedes every start, and null for the empty list
C11_CurrentSection ==
    sectionResult # NotResolved =>
        IF Len(sectionList) = 0
        THEN sectionResult = NullSection
        ELSE IF StartedSections(sectionList, sectionTime) = {}
             THEN sectionResult = sectionList[1]
             ELSE LET top == CHOOSE i \in StartedSections(sectionList, sectionTime) :
                                \A j \in StartedSections(sectionList, sectionTime) : j <= i
                  IN  sectionResult = sectionList[top + 1]

\* two sections share the start the query lies on, and the later one is returned
C11_Witness ==
    /\ Len(sectionList) = 3
    /\ sectionList[2].startTime = sectionList[3].startTime
    /\ sectionList[1].startTime < sectionList[2].startTime
    /\ sectionTime = sectionList[2].startTime
    /\ sectionResult = sectionList[3]

-----------------------------------------------------------------------------
(* Live energy bands and centroid *)

\* floor(pct/100 * n), by its defining inequalities
FloorOf(n, pct) == CHOOSE k \in 0..n : 100 * k <= pct * n /\ pct * n < 100 * (k + 1)

\* the bin positions (0-based) of the five bands of an N-bin buffer
BandBins(n) ==
    [bass    |-> {i \in 0..(n - 1) : i < FloorOf(n, 4)},
     lowMid  |-> {i \in 0..(n - 1) : FloorOf(n, 4) <= i /\ i < FloorOf(n, 8)},
     mid     |-> {i \in 0..(n - 1) : FloorOf(n, 8) <= i /\ i < FloorOf(n, 25)},
     highMid |-> {i \in 0..(n - 1) : FloorOf(n, 25) <= i /\ i < FloorOf(n, 50)},
     treble  |-> {i \in 0..(n - 1) : FloorOf(n, 50) <= i}]

BandNames == {"bass", "lowMid", "mid", "highMid", "treble"}

RECURSIVE BinSum(_, _)
\* sum of the magnitudes of the bins at the positions in I
BinSum(data, I) ==
    IF I = {} THEN 0
    ELSE LET i == CHOOSE x \in I : TRUE IN data[i + 1] + BinSum(data, I \ {i})

RECURSIVE WeightedBinSum(_, _)
\* sum of position times magnitude over the positions in I
WeightedBinSum(data, I) ==
    IF I = {} THEN 0
    ELSE LET i == CHOOSE x \in I : TRUE IN i * data[i + 1] + WeightedBinSum(data, I \ {i})

\* C12: every bin of an N-bin buffer lies in exactly one of the five ranges
\* ending at floor(0.04N), floor(0.08N), floor(0.25N), floor(0.5N), N; each
\* band is the mean of its bins over 255, in [0,1], and 0 for an empty range
C12_BandsPartitionAndMean ==
    features # NullFeatures =>
        LET n    == Len(freqData)
            bins == BandBins(n)
        IN  /\ \A i \in 0..(n - 1) :
                   Cardinality({b \in BandNames : i \in bins[b]}) = 1
            /\ \A b \in BandNames :
                   LET v == features.energyBands[b]
                   IN  /\ v.den > 0
                       /\ 0 <= v.num /\ v.num <= v.den
                       /\ IF bins[b] = {}
                          THEN v.num = 0
                          ELSE /\ v.num = BinSum(freqData, bins[b])
                               /\ v.den = Cardinality(bins[b]) * 255

\* a buffer with five non-empty ranges whose bands differ
C12_Witness ==
    /\ features # NullFeatures
    /\ Len(freqData) >= 25
    /\ features.energyBands.bass.num = features.energyBands.bass.den
    /\ features.energyBands.mid.num > 0
    /\ features.energyBands.mid.num < features.energyBands.mid.den
    /\ features.energyBands.treble.num = 0

\* the fraction is the number 0 (a 0/0 fraction is NaN, not 0)
IsZero(v) == v.num = 0 /\ v.den > 0

\* the fraction is the number 1
IsOne(v) == v.num = v.den /\ v.den > 0

C14_Centroid ==
    (features # NullFeatures /\ Len(freqData) > 0) =>
        LET n     == Len(freqData)
            all   == 0..(n - 1)
            total == BinSum(freqData, all)
            c     == features.spectralCentroid
        IN  /\ c.den > 0
            /\ 0 <= c.num /\ c.num <= c.den
            /\ IF total > 0
               THEN c.num = WeightedBinSum(freqData, all) /\ c.den = total * n
               ELSE 2 * c.num = c.den

\* a spectrum with energy in its upper bins only, and a silent one
C14_Witness ==
    /\ features # NullFeatures
    /\ Len(freqData) = MaxBins
    /\ freqData[1] = 0
    /\ freqData[MaxBins] = 255
    /\ 2 * features.spectralCentroid.num > features.spectralCentroid.den

C14_WitnessSilence ==
    /\ features # NullFeatures
    /\ Len(freqData) = MaxBins
    /\ \A i \in 1..MaxBins : freqData[i] = 0
    /\ features.spectralCentroid = Frac(1, 2)

\* every bin of the buffer holds the byte level
AllBins(data, level) == \A i \in 1..Len(data) : data[i] = level

\* C15 as stated: an all-0 buffer gives 0 for all five bands, and an all-255
\* buffer gives 1 for all five bands
C15_FlatBuffersAsStated ==
    features # NullFeatures =>
        /\ AllBins(freqData, 0) =>
               \A b \in BandNames : IsZero(features.energyBands[b])
        /\ (Len(freqData) > 0 /\ AllBins(freqData, 255)) =>
               \A b \in BandNames : IsOne(features.energyBands[b])

\* C15: an all-0 buffer gives 0 for all five bands; an all-255 buffer gives 1
\* for every band whose bin range is non-empty and 0 for a band whose range is
\* empty, and all five ranges are non-empty when N >= 25
C15_FlatBuffers ==
    features # NullFeatures =>
        /\ AllBins(freqData, 0) =>
               \A b \in BandNames : IsZero(features.energyBands[b])
        /\ AllBins(freqData, 255) =>
               /\ \A b \in BandNames :
                      IF BandBins(Len(freqData))[b] = {}
                      THEN IsZero(features.energyBands[b])
                      ELSE IsOne(features.energyBands[b])
               /\ Len(freqData) >= 25 =>
                      \A b \in BandNames : IsOne(features.energyBands[b])

\* an all-255 buffer with five non-empty ranges
C15_Witness ==
    /\ features # NullFeatures
    /\ Len(freqData) >= 25
    /\ AllBins(freqData, 255)
    /\ \A b \in BandNames : IsOne(features.energyBands[b])

\* an all-255 buffer too short to have a bass bin
C15_WitnessShort ==
    /\ features # NullFeatures
    /\ Len(freqData) = 24
    /\ AllBins(freqData, 255)
    /\ IsZero(features.energyBands.bass)
    /\ IsOne(features.energyBands.treble)

\* the buffer with the bins outside the positions in I set to 0
OnlyBins(data, I) == [i \in 1..Len(data) |-> IF (i - 1) \in I THEN data[i] ELSE 0]

\* C16: each band depends only on the bins of its own range: a buffer that is
\* non-zero only in the first 4% of bins has treble 0 (and bass > 0.5 when
\* those bins hold values above 127), and a buffer that is non-zero only in
\* the last 50% of bins has bass 0
C16_BandIndependence ==
    features # NullFeatures =>
        LET n    == Len(freqData)
            bins == BandBins(n)
        IN  /\ \A b \in BandNames :
                   getEnergyBands(OnlyBins(freqData, bins[b]))[b] = features.energyBands[b]
            /\ (\A i \in 0..(n - 1) : i \notin bins.bass => freqData[i + 1] = 0) =>
                   /\ IsZero(features.energyBands.treble)
                   /\ (bins.bass # {} /\ \A i \in bins.bass : freqData[i + 1] > 127) =>
                          2 * features.energyBands.bass.num > features.energyBands.bass.den
            /\ (\A i \in 0..(n - 1) : i \notin bins.treble => freqData[i + 1] = 0) =>
                   IsZero(features.energyBands.bass)

\* a bass-heavy buffer: non-zero in its first 4% only, bass above 0.5
C16_Witness ==
    /\ features # NullFeatures
    /\ Len(freqData) >= 25
    /\ freqData = OnlyBins(freqData, BandBins(Len(freqData)).bass)
    /\ freqData[1] = 200
    /\ 2 * features.energyBands.bass.num > features.energyBands.bass.den
    /\ IsZero(features.energyBands.treble)

\* a treble-heavy buffer: non-zero in its last 50% only
C16_WitnessTreble ==
    /\ features # NullFeatures
    /\ Len(freqData) >= 25
    /\ freqData = OnlyBins(freqData, BandBins(Len(freqData)).treble)
    /\ freqData[Len(freqData)] = 200
    /\ IsZero(features.energyBands.bass)
    /\ 2 * features.energyBands.treble.num > features.energyBands.treble.den

-----------------------------------------------------------------------------
(* Shader scene: which program is bound, and what a frame changes *)

FallbackProgram == buildFragmentShader(FALLBACK_SHADER)

\* C17: whenever the caller's shader source is none (""), whatever source
\* changes came before, the program bound to the mesh and drawn is the built-in
\* fallback wrapped with the prologue; a program built for an earlier custom
\* source is never left bound
C17_NoSourceBindsFallback ==
    shaderCode = "" =>
        /\ shaderMaterial.fragmentShader = FallbackProgram
        /\ drawn # <<>> => drawn = FallbackProgram

\* the source was a custom one (the ref still holds its material), was then
\* cleared, and the frame after that drew the fallback
C17_Witness ==
    /\ shaderCode = ""
    /\ materialRef.fragmentShader = buildFragmentShader("glslA")
    /\ drawn = FallbackProgram

\* C18: after the scene has fallen back because of an invalid source, a valid
\* source makes it compiled with that source on that very source change: the
\* program bound is built from the new source
C18_ValidSourceAfterFallback ==
    (sinceChange.fellBack /\ shaderCode # "" /\ Compiles(shaderCode)) =>
        /\ shaderMaterial.fragmentShader = buildFragmentShader(shaderCode)
        /\ drawn # <<>> => drawn = buildFragmentShader(shaderCode)

\* the fallback stood in for an invalid source, a valid source followed and
\* the next frame drew the program built from it
C18_Witness ==
    /\ sinceChange.fellBack
    /\ shaderCode = "glslB"
    /\ shaderMaterial.fragmentShader = buildFragmentShader("glslB")
    /\ drawn = buildFragmentShader("glslB")

\* C19: a frame or a resize never rebuilds the shader program, which is rebuilt
\* only when the source text changes: while the source stays the same the bound
\* program stays the same and no new material is handed to the effect, and the
\* resolution uniform takes the current size at every frame and whenever the
\* size effect has run
C19_RebuildOnlyOnSourceChange ==
    [][/\ shaderCode' = shaderCode =>
              /\ shaderMaterial' = shaderMaterial
              /\ materialEffect' => materialEffect
       /\ (Frame /\ materialRef # NoMaterial) => uniforms'.iResolution = size
       /\ ~sizeEffect' => uniforms'.iResolution = size']_vars

\* after a resize and a frame the bound program is still the one built for the
\* source, and the resolution uniform holds the new size
C19_Witness ==
    /\ sinceChange.resized
    /\ shaderCode = "glslA"
    /\ shaderMaterial.fragmentShader = buildFragmentShader("glslA")
    /\ materialRef = shaderMaterial
    /\ ~materialEffect
    /\ drawn = buildFragmentShader("glslA")
    /\ uniforms.iResolution = size

\* running the uniform update again with the inputs of the frame just run
\* leaves the table as that frame left it
FrameIsIdempotent ==
    materialRef # NoMaterial =>
        /\ UpdateUniforms(uniforms', elapsedTime', size, features, beatState) = uniforms'
        /\ (elapsedTime' = elapsedTime
              /\ uniforms = UpdateUniforms(uniforms, elapsedTime, size, features, beatState))
               => uniforms' = uniforms

\* what a frame leaves alone apart from the uniform table, the clock, the draw
\* and the error check
FrameKeepsScene ==
    /\ UNCHANGED <<shaderCode, shaderMaterial, materialEffect, sizeEffect,
                   materialRef, size, hasDebugExt>>
    /\ UNCHANGED <<beatVars, interpVars, liveVars, batchVars, sectionVars, clientVars>>

\* C20 as stated: the per-frame uniform update is idempotent and changes
\* nothing outside the uniform table
C20_FrameAsStated ==
    [][Frame =>
          /\ FrameIsIdempotent
          /\ FrameKeepsScene
          /\ UNCHANGED <<errorCheckedRef, errorCalls>>
          /\ glError => glError']_vars

\* C20: the per-frame uniform update is idempotent on the uniform table, and
\* outside the table it changes only the one-time error check of a newly built
\* program: the first frame after a build sets the checked flag, reads (and
\* clears) the GL error flag and may call the error callback once; a frame of a
\* program already checked changes nothing outside the uniform table
C20_FrameIdempotent ==
    [][Frame =>
          /\ FrameIsIdempotent
          /\ FrameKeepsScene
          /\ (errorCheckedRef \/ materialRef = NoMaterial) =>
                 /\ UNCHANGED <<errorCheckedRef, errorCalls>>
                 /\ glError => glError'
          /\ (~errorCheckedRef /\ materialRef # NoMaterial) =>
                 /\ errorCheckedRef'
                 /\ errorCalls' \in {errorCalls, errorCalls + 1}]_vars

\* a checked program whose table holds what the update writes for the current
\* inputs: the frame has run with them, beat and features included
C20_Witness ==
    /\ errorCheckedRef
    /\ materialRef = shaderMaterial
    /\ drawn # <<>>
    /\ features # NullFeatures
    /\ elapsedTime > 0
    /\ uniforms.u_beat > 0
    /\ uniforms = UpdateUniforms(uniforms, elapsedTime, size, features, beatState)

\* the uniforms fed from the audio features: five bands, loudness, centroid
FeatureUniforms(u) ==
    <<u.u_bass, u.u_lowMid, u.u_mid, u.u_highMid, u.u_treble, u.u_energy,
      u.u_spectralCentroid>>

C26_ErrorCheckOncePerBuild ==
    [][/\ (Frame /\ errorCheckedRef) =>
              /\ errorCheckedRef'
              /\ errorCalls' = errorCalls
              /\ glError => glError'
       /\ (Frame /\ ~errorCheckedRef /\ materialRef # NoMaterial) =>
              /\ errorCheckedRef'
              /\ errorCalls' \in {errorCalls, errorCalls + 1}
       /\ (errorCheckedRef /\ ~errorCheckedRef') =>
              materialEffect /\ ~materialEffect'
       /\ (materialEffect /\ ~materialEffect') => ~errorCheckedRef'
       /\ shaderCode' # shaderCode => materialEffect']_vars

\* the first frame of a program reported an error; a later frame of the same
\* program finds the error flag raised again and does not check it
C26_Witness ==
    /\ errorCheckedRef
    /\ materialRef = shaderMaterial
    /\ ~materialEffect
    /\ errorCalls = 1
    /\ glError
    /\ elapsedTime = 20 * MaxClock

-----------------------------------------------------------------------------
(* Batch frame *)

\* the series of the analysis that holds a tracked feature
TrackedSeries(an) ==
    [rms              |-> an.spectral.rms,
     bass             |-> an.spectral.energyBands.bass,
     lowMid           |-> an.spectral.energyBands.lowMid,
     mid              |-> an.spectral.energyBands.mid,
     highMid          |-> an.spectral.energyBands.highMid,
     treble           |-> an.spectral.energyBands.treble,
     spectralCentroid |-> an.spectral.spectralCentroid,
     harmonicEnergy   |-> an.harmonicPercussive.harmonicEnergy,
     percussiveEnergy |-> an.harmonicPercussive.percussiveEnergy]

\* C22: the batch feature set holds, for every tracked feature (loudness, the
\* five energy bands, the centroid, harmonic and percussive energy), the value
\* of interpolateFeature applied to that feature's series at the query time
C22_EveryTrackedFeatureInterpolated ==
    batchRan =>
        \A name \in DOMAIN TrackedSeries(analysis) :
            /\ name \in DOMAIN batchFrame.audioFeatures
            /\ batchFrame.audioFeatures[name] =
                   interpolateFeature(analysis.spectral.times,
                                      TrackedSeries(analysis)[name],
                                      batchFrame.currentTime)

C24_AlwaysFinite ==
    interpPath # "none" =>
        /\ interpResult.den > 0
        /\ (Len(times) = 0 \/ Len(values) = 0) => interpResult = Frac(0, 1)
        /\ (interpPath \in {"flat", "lerp"}
              /\ At(times, searchLo) = At(times, searchHi)) =>
               interpResult = Frac(At(values, searchLo), 1)
        /\ interpPath = "lerp" => At(times, searchLo) < At(times, searchHi)

\* values is shorter than times and the upper neighbour of the query has no
\* value: it is read as 0 and the result is a number between v0 and 0
C24_Witness ==
    /\ interpPath = "lerp"
    /\ Len(values) > 0
    /\ Len(values) < Len(times)
    /\ searchLo < Len(values)
    /\ searchHi >= Len(values)
    /\ interpResult.den > 0
    /\ interpResult.num > 0

-----------------------------------------------------------------------------
(* Chat websocket client *)

\* C25: after disconnect() no new WebSocket is ever opened by the client:
\* neither the close event caused by disconnect nor a reconnect timer scheduled
\* before disconnect leads to a later connect()
C25_NoSocketAfterDisconnect == socketsAfterDisconnect = 0

LiveSockets == {i \in 1..Len(sockets) : Live(sockets[i])}

\* what holds of a client that was not disconnected
WsBackoff ==
    ~wsDisconnected =>
        /\ reconnectAttempts \in 0..5
        /\ \A t \in reconnectTimers :
               /\ t.attempt = reconnectAttempts
               /\ t.attempt \in 1..5
               /\ t.delayMs = Pow2(t.attempt) * 1000
        /\ Cardinality(LiveSockets) + Cardinality(reconnectTimers) <= 1

\* C30: a client that was not disconnected makes at most 5 reconnect attempts
\* in a row without a successful open, the n-th scheduled 2^n seconds after
\* the close; a successful open resets the count to 0; at most one socket of
\* the client is live at a time
C30_Backoff ==
    [][/\ WsBackoff'
       /\ (~wsDisconnected' /\ Len(sockets') = Len(sockets)) =>
              \A i \in 1..Len(sockets) :
                  /\ (sockets[i] = "connecting" /\ sockets'[i] = "open") =>
                         reconnectAttempts' = 0
                  /\ (Live(sockets[i]) /\ sockets'[i] = "closed") =>
                         IF reconnectAttempts < 5
                         THEN /\ reconnectAttempts' = reconnectAttempts + 1
                              /\ Cardinality(reconnectTimers') = 1
                         ELSE reconnectTimers' = {}]_vars

\* the fifth attempt in a row has failed: the count is 5 and nothing is pending
C30_Witness ==
    /\ ~wsDisconnected
    /\ reconnectAttempts = 5
    /\ reconnectTimers = {}
    /\ LiveSockets = {}
    /\ Len(sockets) = 6
    /\ sockets[1] = "closed"

\* the fifth attempt is pending, 32 s after the close
C30_WitnessPending ==
    /\ ~wsDisconnected
    /\ \E t \in reconnectTimers : t.attempt = 5 /\ t.delayMs = 32000

-----------------------------------------------------------------------------
(* Chat stream *)

\* C29: for every stream and every interleaving of system, phase and
\* render_spec messages with it, the assistant message created at stream_start
\* ends with content equal to the in-order concatenation of all chunk
\* contents, and after stream_end isStreaming is false in the store and on
\* that message
C29_StreamAssembled ==
    streamState = "ended" =>
        /\ messages[streamIdx].role = "assistant"
        /\ messages[streamIdx].content = streamChunks
        /\ ~isStreaming
        /\ ~messages[streamIdx].isStreaming

-----------------------------------------------------------------------------
(* Render submission *)

\* C27: while the phase is rendering and a submitted render is starting or
\* being polled, the preview's customShaderCode is the shader code that was
\* sent with the submission: no auto-generated shader is installed meanwhile
C27_PreviewShaderIsSubmittedShader ==
    (phase = "rendering" /\ (startInFlight > 0 \/ polling)) =>
        customShaderCode = submittedShader

\* C28: after a render failed and the phase went back to confirmation, a later
\* transition to rendering with the same render spec submits a new render job
C28_RetrySubmits ==
    ~ /\ failedSince
      /\ phase = "rendering"
      /\ renderSpec # NoSpec
      /\ renderSpec = lastRenderedSpec
      /\ ~effectPending

=============================================================================
